---- MODULE Spec2Model ----
(***************************************************************************)
(* Lead-management front end: the Lead Form (draft, validation, submit),   *)
(* the Lead Grid (filters, pagination, fetch and delete against the remote *)
(* leads table) and the Dashboard view controller.                         *)
(*                                                                         *)
(* Text is modelled as a sequence of one-character strings so that         *)
(* emptiness, case folding and pattern matching are computed, not assumed. *)
(* Numbers are integers; the number inputs' fractional values are left     *)
(* out.                                                                    *)
(***************************************************************************)
EXTENDS Integers, Sequences, FiniteSets, TLC

\* an absent user id or timestamp (null)
None == "none"

\* an absent lead (null / undefined)
NoLead == [id |-> 0]

\* no request awaiting its response
NoRequest == [kind |-> "none"]

\* the number NaN
NaN == [nan |-> TRUE, val |-> 0]

Num(n) == [nan |-> FALSE, val |-> n]

\* ------------------------------------------------------------------------
\* Bounds of the model
\* ------------------------------------------------------------------------
MaxEvents == 2
MaxInFlight == 2
MaxInFlightDeletes == 1
MaxPage == 3
MaxRefresh == 2
MaxSignOuts == 1

\* ------------------------------------------------------------------------
\* Generic helpers
\* ------------------------------------------------------------------------
Min(a, b) == IF a <= b THEN a ELSE b

Last(s) == s[Len(s)]

RemoveAt(s, i) == SubSeq(s, 1, i - 1) \o SubSeq(s, i + 1, Len(s))

\* Math.floor(a / b) in the place of Math.ceil
MathFloor(a, b) == a \div b

\* Math.ceil(a / b) for a >= 0, b > 0
MathCeil(a, b) == (a + b - 1) \div b

\* ------------------------------------------------------------------------
\* Lead records (types/lead.ts)
\* ------------------------------------------------------------------------
LeadSources == {"website", "facebook_ads", "google_ads", "referral", "events", "other"}

LeadStatuses == {"new", "contacted", "qualified", "lost", "won"}

\* the fields of CreateLeadRequest
EditableFields ==
  {"first_name", "last_name", "email", "phone", "company", "city", "state",
   "source", "status", "score", "lead_value", "is_qualified"}

Users == {"u1", "u2"}

Sessions == {"s1"}

\* Rows of the remote leads table the model starts from: ids 1..45 belong
\* to u1, ids 46..47 to u2.  created_at is the id, so the newest row has the
\* highest id.  status "new": ids 1..21; source "website": ids 1..40;
\* is_qualified: ids 41..47; the text "ac" occurs (in some case) in
\* first_name of id 3 and in company, and only there, of ids 45..47.
RowAt(i) ==
  [id |-> i,
   user_id |-> IF i <= 45 THEN "u1" ELSE "u2",
   first_name |-> IF i = 3 THEN <<"A", "c">> ELSE <<"B">>,
   last_name |-> <<"L">>,
   email |-> <<"e", "@">>,
   phone |-> <<"5">>,
   company |-> IF i >= 45 THEN <<"A", "C">> ELSE <<"I">>,
   city |-> <<"R">>,
   state |-> <<"N">>,
   source |-> IF i <= 40 THEN "website" ELSE "referral",
   status |-> IF i <= 21 THEN "new" ELSE "won",
   score |-> IF i = 45 THEN 100 ELSE i,
   lead_value |-> 10 * i,
   last_activity_at |-> None,
   is_qualified |-> (i >= 41),
   created_at |-> i,
   updated_at |-> i]

\* the table in the order its rows were created
AllRows == [i \in 1..47 |-> RowAt(i)]

\* the rows of a table as a set
RowSet(rows) == {rows[i] : i \in DOMAIN rows}

\* the leads the form and the dashboard are opened on
SampleLeads == {RowAt(3), RowAt(45)}

\* ------------------------------------------------------------------------
\* State
\* ------------------------------------------------------------------------
VARIABLES
  \* Lead Form
  formLead,        \* the lead prop (NoLead in create mode)
  formPhase,       \* "rendered" before the [lead] effect has run, then "ready"
  formData,        \* the draft
  submitted,       \* payloads handed to onSubmit by the last step
  \* shared
  toast,           \* notices raised by the last step
  user,            \* useAuth().user?.id, or None
  store,           \* the remote leads table: its rows in the order they were created
  \* Lead Grid
  gridPhase,       \* "rendered" before the mount effects have run, then "mounted"
  leads,
  loading,
  pagination,
  filters,
  inflight,        \* fetch requests awaiting their response
  inflightDeletes, \* delete requests awaiting their response
  nEvents,         \* events that changed the grid or sent a request (bounded by MaxEvents)
  \* Dashboard
  currentView,
  selectedLead,
  dashLoading,
  refreshTrigger,
  pending,         \* the create/update request awaiting its response, or NoRequest
  session,         \* useAuth().session, or None
  authLoading,     \* useAuth().loading
  signOuts,        \* signOut calls awaiting their response
  navigated        \* the routes navigate() was called with by the last step

formVars == <<formLead, formPhase, formData, submitted>>

gridVars == <<gridPhase, leads, loading, pagination, filters, inflight, inflightDeletes, nEvents>>

authVars == <<session, authLoading, signOuts>>

dashVars == <<currentView, selectedLead, dashLoading, pending, session, authLoading, signOuts,
              navigated>>

vars == <<formLead, formPhase, formData, submitted, toast, user, store,
          gridPhase, leads, loading, pagination, filters, inflight,
          inflightDeletes, nEvents, currentView, selectedLead, dashLoading,
          refreshTrigger, pending, session, authLoading, signOuts, navigated>>

\* ------------------------------------------------------------------------
\* Initial values of each component's state
\* ------------------------------------------------------------------------
InitialFormData ==
  [first_name |-> <<>>, last_name |-> <<>>, email |-> <<>>, phone |-> <<>>,
   company |-> <<>>, city |-> <<>>, state |-> <<>>, source |-> "website",
   status |-> "new", score |-> 0, lead_value |-> 0, is_qualified |-> FALSE]

InitialPagination == [page |-> 1, limit |-> 20, total |-> 0, totalPages |-> 0]

InitialFilters == [search |-> <<>>, status |-> "all", source |-> "all", is_qualified |-> "all"]

FormInit ==
  /\ formPhase = "rendered"
  /\ formData = InitialFormData
  /\ submitted = <<>>

GridInit ==
  /\ gridPhase = "rendered"
  /\ leads = <<>>
  /\ loading = FALSE
  /\ pagination = InitialPagination
  /\ filters = InitialFilters
  /\ inflight = <<>>
  /\ inflightDeletes = <<>>
  /\ nEvents = 0

DashInit ==
  /\ currentView = "grid"
  /\ selectedLead = NoLead
  /\ dashLoading = FALSE
  /\ refreshTrigger = 0
  /\ pending = NoRequest
  /\ signOuts = 0

\* a session is present and nothing has been navigated to
SignedIn ==
  /\ session = "s1"
  /\ authLoading = FALSE
  /\ navigated = <<>>

\* ------------------------------------------------------------------------
\* Lead Form
\* ------------------------------------------------------------------------
Digits == {"0", "1", "2", "3", "4", "5", "6", "7", "8", "9"}

DigitValue(c) ==
  CASE c = "0" -> 0 [] c = "1" -> 1 [] c = "2" -> 2 [] c = "3" -> 3 [] c = "4" -> 4
    [] c = "5" -> 5 [] c = "6" -> 6 [] c = "7" -> 7 [] c = "8" -> 8 [] c = "9" -> 9

\* value of the longest prefix of s made of digits; acc is the value so far
RECURSIVE ParseDigits(_, _)
ParseDigits(s, acc) ==
  IF s = <<>> \/ Head(s) \notin Digits THEN acc
  ELSE ParseDigits(Tail(s), 10 * acc + DigitValue(Head(s)))

\* parseFloat on integer numerals: optional sign, then the longest run of
\* digits; NaN when there is no digit
ParseFloat(s) ==
  LET neg == s # <<>> /\ Head(s) = "-"
      body == IF neg THEN Tail(s) ELSE s
  IN IF body = <<>> \/ Head(body) \notin Digits THEN NaN
     ELSE IF neg THEN Num(0 - ParseDigits(body, 0)) ELSE Num(ParseDigits(body, 0))

\* x || 0
OrZero(x) == IF x.nan \/ x.val = 0 THEN 0 ELSE x.val

\* values typed into the form
RequiredTexts == {<<>>, <<"Z">>}

OptionalTexts == {<<>>}

ScoreTexts == {<<>>, <<"x", "1">>, <<"-", "1">>, <<"1", "0", "0">>, <<"1", "0", "1">>}

ValueTexts == {<<>>, <<"-", "1">>}

TextInputs ==
  [first_name |-> RequiredTexts, last_name |-> RequiredTexts, email |-> RequiredTexts,
   phone |-> OptionalTexts, company |-> OptionalTexts, city |-> OptionalTexts,
   state |-> OptionalTexts]

NumberInputs == [score |-> ScoreTexts, lead_value |-> ValueTexts]

\* the [lead] effect with company filled from the lead's city
LeadEffectDataCompanyFromCity(lead) ==
  [first_name |-> lead.first_name,
   last_name |-> lead.last_name,
   email |-> lead.email,
   phone |-> lead.phone,
   company |-> lead.city,
   city |-> lead.city,
   state |-> lead.state,
   source |-> lead.source,
   status |-> lead.status,
   score |-> lead.score,
   lead_value |-> lead.lead_value,
   is_qualified |-> lead.is_qualified]

\* useEffect(..., [lead]): the draft set from the lead prop
LeadEffectData(lead) ==
  [first_name |-> lead.first_name,
   last_name |-> lead.last_name,
   email |-> lead.email,
   phone |-> lead.phone,
   company |-> lead.company,
   city |-> lead.city,
   state |-> lead.state,
   source |-> lead.source,
   status |-> lead.status,
   score |-> lead.score,
   lead_value |-> lead.lead_value,
   is_qualified |-> lead.is_qualified]

FormLeadEffect ==
  /\ formPhase = "rendered"
  /\ formPhase' = "ready"
  /\ formData' = IF formLead # NoLead THEN LeadEffectData(formLead) ELSE formData
  /\ submitted' = <<>>
  /\ toast' = <<>>
  /\ UNCHANGED <<formLead, user, store, gridVars, dashVars, refreshTrigger>>

HandleChange(name, type, value) ==
  /\ formPhase = "ready"
  /\ formData' = [formData EXCEPT ![name] =
                    IF type = "number" THEN OrZero(ParseFloat(value)) ELSE value]
  /\ submitted' = <<>>
  /\ toast' = <<>>
  /\ UNCHANGED <<formLead, formPhase, user, store, gridVars, dashVars, refreshTrigger>>

HandleSelectChange(name, value) ==
  /\ formPhase = "ready"
  /\ formData' = [formData EXCEPT ![name] = value]
  /\ submitted' = <<>>
  /\ toast' = <<>>
  /\ UNCHANGED <<formLead, formPhase, user, store, gridVars, dashVars, refreshTrigger>>

OnCheckedChange(checked) ==
  /\ formPhase = "ready"
  /\ formData' = [formData EXCEPT !.is_qualified = checked]
  /\ submitted' = <<>>
  /\ toast' = <<>>
  /\ UNCHANGED <<formLead, formPhase, user, store, gridVars, dashVars, refreshTrigger>>

\* handleSubmit's validation with the score checked before the required fields
ValidateFormScoreFirst(fd) ==
  IF fd.score < 0 \/ fd.score > 100
  THEN "Score must be between 0 and 100"
  ELSE IF fd.first_name = <<>> \/ fd.last_name = <<>> \/ fd.email = <<>>
  THEN "Please fill in all required fields"
  ELSE "ok"

\* handleSubmit's validation with the upper score bound made exclusive
ValidateFormExclusiveMax(fd) ==
  IF fd.first_name = <<>> \/ fd.last_name = <<>> \/ fd.email = <<>>
  THEN "Please fill in all required fields"
  ELSE IF fd.score < 0 \/ fd.score >= 100
  THEN "Score must be between 0 and 100"
  ELSE "ok"

\* the validation of handleSubmit: the notice it raises, or "ok"
ValidateForm(fd) ==
  IF fd.first_name = <<>> \/ fd.last_name = <<>> \/ fd.email = <<>>
  THEN "Please fill in all required fields"
  ELSE IF fd.score < 0 \/ fd.score > 100
  THEN "Score must be between 0 and 100"
  ELSE "ok"

\* what handleSubmit hands to onSubmit
SubmitPayload(fd) == fd

HandleSubmit ==
  /\ formPhase = "ready"
  /\ LET v == ValidateForm(formData)
     IN IF v # "ok"
        THEN /\ toast' = <<v>>
             /\ submitted' = <<>>
        ELSE /\ toast' = <<>>
             /\ submitted' = <<SubmitPayload(formData)>>
  /\ UNCHANGED <<formLead, formPhase, formData, user, store, gridVars, dashVars, refreshTrigger>>

FormSelectInputs == [source |-> {"events"}, status |-> {"lost"}]

NextForm ==
  \/ FormLeadEffect
  \/ \E name \in DOMAIN TextInputs : \E value \in TextInputs[name] :
       HandleChange(name, "text", value)
  \/ \E name \in DOMAIN NumberInputs : \E value \in NumberInputs[name] :
       HandleChange(name, "number", value)
  \/ \E name \in DOMAIN FormSelectInputs : \E value \in FormSelectInputs[name] :
       HandleSelectChange(name, value)
  \/ \E checked \in BOOLEAN : OnCheckedChange(checked)
  \/ HandleSubmit

InitForm ==
  /\ formLead \in {NoLead} \cup SampleLeads
  /\ FormInit
  /\ toast = <<>>
  /\ user = "u1"
  /\ store = <<>>
  /\ GridInit
  /\ DashInit
  /\ SignedIn

SpecForm == InitForm /\ [][NextForm]_vars

\* ------------------------------------------------------------------------
\* Dashboard (view controller)
\* ------------------------------------------------------------------------
\* the id and the timestamp the remote store assigns to the next row
NextId(rows) ==
  IF rows = <<>> THEN 1
  ELSE 1 + CHOOSE m \in {rows[i].id : i \in DOMAIN rows} : \A i \in DOMAIN rows : rows[i].id <= m

\* insert({...leadData, user_id}): the row the remote store adds
InsertedRow(rows, values) ==
  [id |-> NextId(rows),
   user_id |-> values.user_id,
   first_name |-> values.first_name,
   last_name |-> values.last_name,
   email |-> values.email,
   phone |-> values.phone,
   company |-> values.company,
   city |-> values.city,
   state |-> values.state,
   source |-> values.source,
   status |-> values.status,
   score |-> values.score,
   lead_value |-> values.lead_value,
   last_activity_at |-> None,
   is_qualified |-> values.is_qualified,
   created_at |-> NextId(rows),
   updated_at |-> NextId(rows)]

\* update(leadData).eq('id', id).eq('user_id', uid): the rows it selects
UpdateTargets(rows, req) ==
  {i \in DOMAIN rows : rows[i].id = req.id /\ rows[i].user_id = req.user_id}

\* a selected row after update(leadData)
UpdatedRow(r, data) ==
  [f \in DOMAIN r |->
     IF f \in DOMAIN data THEN data[f]
     ELSE IF f = "updated_at" THEN r.updated_at + 1
     ELSE r[f]]

\* the session effect without its !session test
SessionEffectOnLoadingOnly(s, l) == IF ~l THEN <<"/login">> ELSE <<>>

\* useEffect(..., [session, authLoading, navigate]): the routes it navigates to
SessionEffect(s, l) == IF ~l /\ s = None THEN <<"/login">> ELSE <<>>

\* what the dashboard renders: the spinner while auth is loading, nothing
\* without a session, else the header and the part of the current view
DashboardRender ==
  IF authLoading THEN "loading"
  ELSE IF session = None THEN "nothing"
  ELSE IF currentView = "edit" /\ selectedLead = NoLead THEN "header"
  ELSE currentView

\* the header and the breadcrumb are rendered
HeaderShown == DashboardRender \in {"grid", "create", "edit", "header"}

\* useAuth reports other values; the session effect runs when session or
\* loading is among them
AuthChange(u, s, l) ==
  /\ <<u, s, l>> # <<user, session, authLoading>>
  /\ user' = u
  /\ session' = s
  /\ authLoading' = l
  /\ navigated' = IF <<s, l>> # <<session, authLoading>> THEN SessionEffect(s, l) ELSE <<>>
  /\ toast' = <<>>
  /\ UNCHANGED <<currentView, selectedLead, dashLoading, refreshTrigger, pending, signOuts,
                 store, formVars, gridVars>>

\* handleLogout up to its await
HandleLogout ==
  /\ HeaderShown
  /\ signOuts < MaxSignOuts
  /\ signOuts' = signOuts + 1
  /\ navigated' = <<>>
  /\ toast' = <<>>
  /\ UNCHANGED <<currentView, selectedLead, dashLoading, refreshTrigger, pending, session,
                 authLoading, user, store, formVars, gridVars>>

\* handleLogout after its await
LogoutComplete(ok) ==
  /\ signOuts > 0
  /\ signOuts' = signOuts - 1
  /\ IF ok
     THEN /\ toast' = <<"Logged out successfully">>
          /\ navigated' = <<"/login">>
     ELSE /\ toast' = <<"Failed to log out">>
          /\ navigated' = <<>>
  /\ UNCHANGED <<currentView, selectedLead, dashLoading, refreshTrigger, pending, session,
                 authLoading, user, store, formVars, gridVars>>

\* the "Back to Home" button of the grid view
BackToHome ==
  /\ DashboardRender = "grid"
  /\ navigated' = <<"/">>
  /\ toast' = <<>>
  /\ UNCHANGED <<currentView, selectedLead, dashLoading, refreshTrigger, pending, authVars,
                 user, store, formVars, gridVars>>

\* onCreateLead={() => setCurrentView('create')}; the button is part of the grid
OnCreateLead ==
  /\ DashboardRender = "grid"
  /\ currentView' = "create"
  /\ toast' = <<>>
  /\ navigated' = <<>>
  /\ UNCHANGED authVars
  /\ UNCHANGED <<selectedLead, dashLoading, refreshTrigger, pending, user, store, formVars, gridVars>>

\* the edit button of a displayed row
HandleEditLead(lead) ==
  /\ DashboardRender = "grid"
  /\ selectedLead' = lead
  /\ currentView' = "edit"
  /\ toast' = <<>>
  /\ navigated' = <<>>
  /\ UNCHANGED authVars
  /\ UNCHANGED <<dashLoading, refreshTrigger, pending, user, store, formVars, gridVars>>

\* the back button (shown outside the grid view) and the form's cancel button
HandleCancelForm ==
  /\ HeaderShown
  /\ currentView # "grid"
  /\ currentView' = "grid"
  /\ selectedLead' = NoLead
  /\ toast' = <<>>
  /\ navigated' = <<>>
  /\ UNCHANGED authVars
  /\ UNCHANGED <<dashLoading, refreshTrigger, pending, user, store, formVars, gridVars>>

\* the onClick of the page title
TitleClick ==
  /\ HeaderShown
  /\ currentView' = "grid"
  /\ selectedLead' = NoLead
  /\ toast' = <<>>
  /\ navigated' = <<>>
  /\ UNCHANGED authVars
  /\ UNCHANGED <<dashLoading, refreshTrigger, pending, user, store, formVars, gridVars>>

\* handleCreateLead up to its await; the create form hands it a validated
\* draft, and its submit button is disabled while loading
HandleCreateLead(leadData) ==
  /\ DashboardRender = "create"
  /\ ~dashLoading
  /\ ValidateForm(leadData) = "ok"
  /\ IF user = None
     THEN UNCHANGED <<dashLoading, pending>>
     ELSE /\ dashLoading' = TRUE
          /\ pending' = [kind |-> "insert",
                         values |-> [f \in EditableFields \cup {"user_id"} |->
                                       IF f = "user_id" THEN user ELSE leadData[f]]]
  /\ toast' = <<>>
  /\ navigated' = <<>>
  /\ UNCHANGED authVars
  /\ UNCHANGED <<currentView, selectedLead, refreshTrigger, user, store, formVars, gridVars>>

\* handleUpdateLead up to its await; the edit form is rendered only while a
\* lead is selected
HandleUpdateLead(leadData) ==
  /\ DashboardRender = "edit"
  /\ ~dashLoading
  /\ ValidateForm(leadData) = "ok"
  /\ IF user = None
     THEN UNCHANGED <<dashLoading, pending>>
     ELSE /\ dashLoading' = TRUE
          /\ pending' = [kind |-> "update", data |-> leadData,
                         id |-> selectedLead.id, user_id |-> user]
  /\ toast' = <<>>
  /\ navigated' = <<>>
  /\ UNCHANGED authVars
  /\ UNCHANGED <<currentView, selectedLead, refreshTrigger, user, store, formVars, gridVars>>

\* handleCreateLead's completion switching to the grid only from the create form
ViewAfterCreateFromFormOnly(ok, view) == IF ok /\ view = "create" THEN "grid" ELSE view

\* handleCreateLead's completion switching to the grid on failure as well
ViewAfterCreateAlwaysGrid(ok, view) == "grid"

\* the view after handleCreateLead's await: setCurrentView('grid') on success only
ViewAfterCreate(ok, view) == IF ok THEN "grid" ELSE view

\* handleUpdateLead's catch block without its setCurrentView('grid')
ViewAfterUpdateSuccessOnly(ok, view) == IF ok THEN "grid" ELSE view

\* the view after handleUpdateLead's await: setCurrentView('grid') in the try
\* block and in the catch block
ViewAfterUpdate(ok, view) == "grid"

\* handleUpdateLead's completion bumping the refresh trigger on failure as well
RefreshAfterUpdateAlways(ok, n) == n + 1

\* the refresh trigger after handleUpdateLead's await: incremented on success only
RefreshAfterUpdate(ok, n) == IF ok THEN n + 1 ELSE n

\* handleCreateLead after its await
CreateComplete(ok) ==
  /\ pending.kind = "insert"
  /\ pending' = NoRequest
  /\ dashLoading' = FALSE
  /\ IF ok
     THEN /\ refreshTrigger < MaxRefresh
          /\ store' = Append(store, InsertedRow(store, pending.values))
          /\ toast' = <<"Lead created">>
          /\ refreshTrigger' = refreshTrigger + 1
     ELSE /\ toast' = <<"Failed to create lead">>
          /\ UNCHANGED <<store, refreshTrigger>>
  /\ currentView' = ViewAfterCreate(ok, currentView)
  /\ navigated' = <<>>
  /\ UNCHANGED authVars
  /\ UNCHANGED <<selectedLead, user, formVars, gridVars>>

\* handleUpdateLead after its await; single() fails unless one row was updated
UpdateComplete(ok) ==
  /\ pending.kind = "update"
  /\ pending' = NoRequest
  /\ dashLoading' = FALSE
  /\ IF ok
     THEN /\ refreshTrigger < MaxRefresh
          /\ UpdateTargets(store, pending) # {}
          /\ store' = [i \in DOMAIN store |->
                          IF i \in UpdateTargets(store, pending)
                          THEN UpdatedRow(store[i], pending.data)
                          ELSE store[i]]
          /\ toast' = <<"Lead updated">>
     ELSE /\ toast' = <<"Failed to update lead">>
          /\ UNCHANGED store
  /\ refreshTrigger' = RefreshAfterUpdate(ok, refreshTrigger)
  /\ currentView' = ViewAfterUpdate(ok, currentView)
  /\ selectedLead' = NoLead
  /\ navigated' = <<>>
  /\ UNCHANGED authVars
  /\ UNCHANGED <<user, formVars, gridVars>>

\* the validated drafts the forms hand to the dashboard
SamplePayloads ==
  {LeadEffectData(RowAt(3)), [LeadEffectData(RowAt(45)) EXCEPT !.status = "lost"]}

NextDash ==
  \/ OnCreateLead
  \/ \E lead \in {r \in RowSet(store) : r.user_id = user} : HandleEditLead(lead)
  \/ HandleCancelForm
  \/ TitleClick
  \/ \E leadData \in SamplePayloads : HandleCreateLead(leadData)
  \/ \E leadData \in SamplePayloads : HandleUpdateLead(leadData)
  \/ \E ok \in BOOLEAN : CreateComplete(ok)
  \/ \E ok \in BOOLEAN : UpdateComplete(ok)
  \/ \E u \in {None, "u1"} : \E s \in {None} \cup Sessions : \E l \in BOOLEAN : AuthChange(u, s, l)
  \/ HandleLogout
  \/ \E ok \in BOOLEAN : LogoutComplete(ok)
  \/ BackToHome

\* the dashboard after its mount: the session effect has run on the values
\* useAuth reported
InitDash ==
  /\ DashInit
  /\ toast = <<>>
  /\ user \in {None, "u1"}
  /\ session \in {None} \cup Sessions
  /\ authLoading \in BOOLEAN
  /\ navigated = SessionEffect(session, authLoading)
  /\ store = <<RowAt(3), RowAt(45), RowAt(46)>>
  /\ formLead = NoLead
  /\ FormInit
  /\ GridInit

SpecDash == InitDash /\ [][NextDash]_vars

\* ------------------------------------------------------------------------
\* Properties of the Lead Form
\* ------------------------------------------------------------------------
\* the twelve editable field values of a lead
EditableOf(lead) == [f \in EditableFields |-> lead[f]]

\* C1: a submit invokes the submit callback (once) if and only if
\* first_name, last_name and email are all non-empty and 0 <= score <= 100;
\* otherwise the callback is not invoked at all.
C1_SubmitIffValid ==
  [][HandleSubmit =>
       Len(submitted') =
         IF /\ Len(formData.first_name) > 0
            /\ Len(formData.last_name) > 0
            /\ Len(formData.email) > 0
            /\ 0 <= formData.score
            /\ formData.score <= 100
         THEN 1 ELSE 0]_vars

\* a draft with score 100 has been submitted and handed to the callback
C1_Witness ==
  /\ Len(submitted) = 1
  /\ submitted[1].score = 100
  /\ formData.score = 100

\* C6: opening the form on a lead sets the draft to exactly that lead's
\* twelve editable field values, and a submit of the unchanged draft hands
\* the callback a payload equal, field by field, to the lead's twelve
\* editable fields.
C6_EditRoundTrip ==
  [][/\ (FormLeadEffect /\ formLead # NoLead) => formData' = EditableOf(formLead)
     /\ (HandleSubmit /\ formLead # NoLead /\ formData = EditableOf(formLead)) =>
          /\ Len(submitted') = 1
          /\ DOMAIN submitted'[1] = EditableFields
          /\ \A f \in EditableFields : submitted'[1][f] = formLead[f]]_vars

\* the form was opened on a lead and its unchanged draft has been submitted
C6_Witness ==
  /\ formLead # NoLead
  /\ formData = EditableOf(formLead)
  /\ Len(submitted) = 1
  /\ submitted[1] = EditableOf(formLead)

\* C15: every payload the form hands to its submit callback has a
\* non-negative lead_value, whatever edits the draft went through.
C15_PayloadValueNonNegative == \A k \in DOMAIN submitted : submitted[k].lead_value >= 0

\* a required field of the draft is empty
RequiredMissing ==
  Len(formData.first_name) = 0 \/ Len(formData.last_name) = 0 \/ Len(formData.email) = 0

\* the draft's score lies outside 0..100
ScoreOutOfRange == formData.score < 0 \/ formData.score > 100

\* C17: a submit of an invalid draft raises exactly one notice, hands
\* nothing to the submit callback, sends no request and leaves the draft as
\* it is; the required fields are checked before the score, so a draft with
\* an empty required field and a score out of range raises the
\* required-field notice only.
C17_InvalidSubmit ==
  [][(HandleSubmit /\ (RequiredMissing \/ ScoreOutOfRange)) =>
       /\ Len(toast') = 1
       /\ RequiredMissing => toast'[1] = "Please fill in all required fields"
       /\ ~RequiredMissing => toast'[1] = "Score must be between 0 and 100"
       /\ submitted' = <<>>
       /\ formData' = formData
       /\ UNCHANGED <<store, pending, inflight, inflightDeletes>>]_vars

\* a draft with an empty first name and score 101 has been submitted: the
\* required-field notice is up and nothing was handed on
C17_Witness ==
  /\ Len(formData.first_name) = 0
  /\ formData.score = 101
  /\ toast = <<"Please fill in all required fields">>
  /\ submitted = <<>>


\* ------------------------------------------------------------------------
\* Remote store: the query builder's predicates
\* ------------------------------------------------------------------------
LowerCase ==
  [A |-> "a", B |-> "b", C |-> "c", D |-> "d", E |-> "e", F |-> "f", G |-> "g",
   H |-> "h", I |-> "i", J |-> "j", K |-> "k", L |-> "l", M |-> "m", N |-> "n",
   O |-> "o", P |-> "p", Q |-> "q", R |-> "r", S |-> "s", T |-> "t", U |-> "u",
   V |-> "v", W |-> "w", X |-> "x", Y |-> "y", Z |-> "z"]

LowerChar(c) == IF c \in DOMAIN LowerCase THEN LowerCase[c] ELSE c

LowerText(t) == [i \in DOMAIN t |-> LowerChar(t[i])]

\* LIKE: in the pattern % stands for any text and _ for any one character
RECURSIVE LikeMatch(_, _)
LikeMatch(t, p) ==
  IF p = <<>> THEN t = <<>>
  ELSE IF Head(p) = "%" THEN LikeMatch(t, Tail(p)) \/ (t # <<>> /\ LikeMatch(Tail(t), p))
  ELSE IF t = <<>> THEN FALSE
  ELSE IF Head(p) = "_" THEN LikeMatch(Tail(t), Tail(p))
  ELSE Head(p) = Head(t) /\ LikeMatch(Tail(t), Tail(p))

\* ILIKE: LIKE without regard to case
ILike(t, p) == LikeMatch(LowerText(t), LowerText(p))

Reverse(t) == [i \in DOMAIN t |-> t[Len(t) + 1 - i]]

\* ------------------------------------------------------------------------
\* Lead Grid
\* ------------------------------------------------------------------------
\* the columns of the .or(...) of fetchLeads
SearchColumns == <<"first_name", "last_name", "email", "company">>

\* the query fetchLeads builds from the values of its closure
BuildQuery(uid, f, page, limit) ==
  [eq |-> <<[col |-> "user_id", val |-> uid]>>
            \o (IF f.status # "all" THEN <<[col |-> "status", val |-> f.status]>> ELSE <<>>)
            \o (IF f.source # "all" THEN <<[col |-> "source", val |-> f.source]>> ELSE <<>>)
            \o (IF f.is_qualified # "all"
                THEN <<[col |-> "is_qualified", val |-> (f.is_qualified = "true")]>>
                ELSE <<>>),
   or |-> IF f.search # <<>>
          THEN [j \in DOMAIN SearchColumns |->
                  [col |-> SearchColumns[j], pattern |-> <<"%">> \o f.search \o <<"%">>]]
          ELSE <<>>,
   from |-> (page - 1) * limit,
   to |-> (page - 1) * limit + limit - 1,
   orderBy |-> "created_at",
   ascending |-> FALSE,
   count |-> "exact"]

\* whether a row satisfies a query's predicates
Matches(q, r) ==
  /\ \A i \in DOMAIN q.eq : r[q.eq[i].col] = q.eq[i].val
  /\ q.or # <<>> => \E j \in DOMAIN q.or : ILike(r[q.or[j].col], q.or[j].pattern)

\* the rows a query's predicates select, in table order
Selected(q, rows) == SelectSeq(rows, LAMBDA r : Matches(q, r))

\* order('created_at', {ascending: false}): created_at grows along the
\* table, so the selection is read backwards
Ordered(q, sel) == IF q.ascending THEN sel ELSE Reverse(sel)

\* range(from, to): the rows from .. to, counted from 0, of the ordered selection
Window(ordered, from, to) == SubSeq(ordered, from + 1, Min(to + 1, Len(ordered)))

\* the response built from a query's selection: the window [from, to] of the
\* ordered selection and the exact count of the selection
ResponseOf(q, sel) == [data |-> Window(Ordered(q, sel), q.from, q.to), count |-> Len(sel)]

\* the response to a query
RunQuery(q, rows) == ResponseOf(q, Selected(q, rows))

\* the values a render's callbacks close over
Closure == [user |-> user, filters |-> filters, page |-> pagination.page]

\* fetchLeads up to its await: the requests it sends
FetchLeads(c) == IF c.user = None THEN <<>> ELSE <<c>>

\* the filter effect without its else: it resets the page and fetches as well
FilterEffectNoElse(c) ==
  IF c.page # 1
  THEN [page |-> 1, fetches |-> FetchLeads(c)]
  ELSE [page |-> c.page, fetches |-> FetchLeads(c)]

\* the effect on [filters, refreshTrigger, user?.id]
FilterEffect(c) ==
  IF c.page # 1
  THEN [page |-> 1, fetches |-> <<>>]
  ELSE [page |-> c.page, fetches |-> FetchLeads(c)]

\* the page effect not fetching
PageEffectIdle(c) == <<>>

\* the effect on [pagination.page]
PageEffect(c) == FetchLeads(c)

\* The effects of the render with closure c, and of the render that follows
\* when they have changed the page: first says whether the filter effect's
\* dependencies changed, second whether the page changed.
RunEffects(c, first, second) ==
  LET e1 == IF first THEN FilterEffect(c) ELSE [page |-> c.page, fetches |-> <<>>]
      e2 == IF second THEN PageEffect(c) ELSE <<>>
      e3 == IF e1.page # c.page THEN PageEffect([c EXCEPT !.page = e1.page]) ELSE <<>>
  IN [page |-> e1.page, fetches |-> e1.fetches \o e2 \o e3]

\* the state after a render's effects
Rendered(c, first, second) ==
  LET e == RunEffects(c, first, second)
  IN /\ Len(inflight) + Len(e.fetches) <= MaxInFlight
     /\ pagination' = [pagination EXCEPT !.page = e.page]
     /\ inflight' = inflight \o e.fetches
     /\ loading' = IF e.fetches # <<>> THEN TRUE ELSE loading

GridMount ==
  /\ gridPhase = "rendered"
  /\ gridPhase' = "mounted"
  /\ Rendered(Closure, TRUE, TRUE)
  /\ toast' = <<>>
  /\ UNCHANGED <<leads, filters, inflightDeletes, nEvents, user, store, refreshTrigger,
                 formVars, dashVars>>

\* the onChange / onValueChange of the four filter controls
SetFilter(name, value) ==
  /\ gridPhase = "mounted"
  /\ nEvents < MaxEvents
  /\ value # filters[name]
  /\ nEvents' = nEvents + 1
  /\ filters' = [filters EXCEPT ![name] = value]
  /\ Rendered([Closure EXCEPT !.filters = filters'], TRUE, FALSE)
  /\ toast' = <<>>
  /\ UNCHANGED <<gridPhase, leads, inflightDeletes, user, store, refreshTrigger,
                 formVars, dashVars>>

\* the footer: "Showing FooterFrom to FooterTo of total leads"
FooterFrom == Min((pagination.page - 1) * pagination.limit + 1, pagination.total)

FooterTo == Min(pagination.page * pagination.limit, pagination.total)

\* the previous control never disabled
PrevDisabledNever == FALSE

\* disabled={pagination.page === 1}
PrevDisabled == pagination.page = 1

NextDisabled == pagination.page = pagination.totalPages

PrevPage ==
  /\ gridPhase = "mounted"
  /\ nEvents < MaxEvents
  /\ ~PrevDisabled
  /\ nEvents' = nEvents + 1
  /\ Rendered([Closure EXCEPT !.page = pagination.page - 1], FALSE, TRUE)
  /\ pagination'.page = pagination.page - 1
  /\ toast' = <<>>
  /\ UNCHANGED <<gridPhase, leads, filters, inflightDeletes, user, store, refreshTrigger,
                 formVars, dashVars>>

NextPage ==
  /\ gridPhase = "mounted"
  /\ nEvents < MaxEvents
  /\ ~NextDisabled
  /\ pagination.page < MaxPage
  /\ nEvents' = nEvents + 1
  /\ Rendered([Closure EXCEPT !.page = pagination.page + 1], FALSE, TRUE)
  /\ toast' = <<>>
  /\ UNCHANGED <<gridPhase, leads, filters, inflightDeletes, user, store, refreshTrigger,
                 formVars, dashVars>>

\* the parent re-renders the grid with a new refreshTrigger
RefreshTriggerChange ==
  /\ gridPhase = "mounted"
  /\ nEvents < MaxEvents
  /\ refreshTrigger < MaxRefresh
  /\ nEvents' = nEvents + 1
  /\ refreshTrigger' = refreshTrigger + 1
  /\ Rendered(Closure, TRUE, FALSE)
  /\ toast' = <<>>
  /\ UNCHANGED <<gridPhase, leads, filters, inflightDeletes, user, store, formVars, dashVars>>

\* useAuth reports another user id, or none
UserChange(u) ==
  /\ gridPhase = "mounted"
  /\ nEvents < MaxEvents
  /\ u # user
  /\ nEvents' = nEvents + 1
  /\ user' = u
  /\ Rendered([Closure EXCEPT !.user = u], TRUE, FALSE)
  /\ toast' = <<>>
  /\ UNCHANGED <<gridPhase, leads, filters, inflightDeletes, store, refreshTrigger,
                 formVars, dashVars>>

\* handleDeleteLead up to its await; the rows and their buttons are rendered
\* only while loading is false
HandleDeleteLead(leadId, confirmed) ==
  /\ gridPhase = "mounted"
  /\ nEvents < MaxEvents
  /\ ~loading
  /\ \E i \in DOMAIN leads : leads[i].id = leadId
  /\ IF ~confirmed \/ user = None
     THEN UNCHANGED <<inflightDeletes, nEvents>>
     ELSE /\ Len(inflightDeletes) < MaxInFlightDeletes
          /\ nEvents' = nEvents + 1
          /\ inflightDeletes' = Append(inflightDeletes,
                                       [id |-> leadId, user_id |-> user, closure |-> Closure])
  /\ toast' = <<>>
  /\ UNCHANGED <<gridPhase, leads, loading, pagination, filters, inflight, user, store,
                 refreshTrigger, formVars, dashVars>>

\* the delete without its .eq('user_id', user.id)
DeleteTargetsByIdOnly(req, r) == r.id = req.id

\* delete().eq('id', leadId).eq('user_id', user.id): the rows it removes
DeleteTargets(req, r) == r.id = req.id /\ r.user_id = req.user_id

\* handleDeleteLead's fetch reading the values current at its completion
FetchesAfterDeleteCurrent(ok, c) == IF ok THEN FetchLeads(Closure) ELSE <<>>

\* handleDeleteLead re-running the fetch after a failed delete as well
FetchesAfterDeleteAlways(ok, c) == FetchLeads(c)

\* the fetches handleDeleteLead sends after its await: fetchLeads() in the
\* try block only, with the values of the closure the handler was created in
FetchesAfterDelete(ok, c) == IF ok THEN FetchLeads(c) ELSE <<>>

\* handleDeleteLead after its await
DeleteComplete(i, ok) ==
  /\ i \in DOMAIN inflightDeletes
  /\ inflightDeletes' = RemoveAt(inflightDeletes, i)
  /\ IF ok
     THEN /\ store' = SelectSeq(store, LAMBDA r : ~DeleteTargets(inflightDeletes[i], r))
          /\ toast' = <<"Lead deleted">>
     ELSE /\ toast' = <<"Failed to delete lead">>
          /\ UNCHANGED store
  /\ LET sent == FetchesAfterDelete(ok, inflightDeletes[i].closure)
     IN /\ Len(inflight) + Len(sent) <= MaxInFlight
        /\ inflight' = inflight \o sent
        /\ loading' = IF sent # <<>> THEN TRUE ELSE loading
  /\ UNCHANGED <<gridPhase, leads, pagination, filters, nEvents, user, refreshTrigger,
                 formVars, dashVars>>

\* setLeads dropping the response's rows
LeadsAfterFetchEmpty(ok, data, prev) == IF ok THEN <<>> ELSE prev

\* setLeads(data || []) moved before the error check: a failed response has
\* no data
LeadsAfterFetchBeforeErrorCheck(ok, data, prev) == IF ok THEN data ELSE <<>>

\* if (error) throw error; setLeads(data || []): the rows displayed after a
\* response
LeadsAfterFetch(ok, data, prev) == IF ok THEN data ELSE prev

\* fetchLeads from its await to its finally block: the response res is
\* written on success, the notice raised on an error
ApplyResponse(ok, res) ==
  /\ leads' = LeadsAfterFetch(ok, res.data, leads)
  /\ IF ok
     THEN /\ pagination' = [pagination EXCEPT
                              !.total = res.count,
                              !.totalPages = MathCeil(res.count, pagination.limit)]
          /\ toast' = <<>>
     ELSE /\ toast' = <<"Failed to fetch leads">>
          /\ UNCHANGED pagination

\* the response of the remote store to the request with closure c
StoreResponse(c) == RunQuery(BuildQuery(c.user, c.filters, c.page, pagination.limit), store)

\* fetchLeads after its await
FetchComplete(i, ok) ==
  /\ i \in DOMAIN inflight
  /\ inflight' = RemoveAt(inflight, i)
  /\ ApplyResponse(ok, StoreResponse(inflight[i]))
  /\ loading' = FALSE
  /\ UNCHANGED <<gridPhase, filters, inflightDeletes, nEvents, user, store, refreshTrigger,
                 formVars, dashVars>>

\* the values chosen in the filter controls
GridFilterInputs ==
  [search |-> {<<>>, <<"a", "C">>, <<"_">>},
   status |-> {"all", "new"},
   source |-> {"all", "website"},
   is_qualified |-> {"all", "true"}]

\* the rows whose delete button is pressed: the first and the last displayed
ClickedRows == {leads[i].id : i \in {1, Len(leads)} \cap DOMAIN leads}

NextGrid ==
  \/ GridMount
  \/ \E name \in DOMAIN GridFilterInputs : \E value \in GridFilterInputs[name] :
       SetFilter(name, value)
  \/ PrevPage
  \/ NextPage
  \/ RefreshTriggerChange
  \/ \E u \in {None} \cup Users : UserChange(u)
  \/ \E leadId \in ClickedRows : \E confirmed \in BOOLEAN : HandleDeleteLead(leadId, confirmed)
  \/ \E i \in DOMAIN inflightDeletes : \E ok \in BOOLEAN : DeleteComplete(i, ok)
  \/ \E i \in DOMAIN inflight : \E ok \in BOOLEAN : FetchComplete(i, ok)

\* the tables the grid is opened on: u1 owns 45 rows of the first and 21 of
\* the second
GridTables == {AllRows, SubSeq(AllRows, 25, 47)}

InitGrid ==
  /\ GridInit
  /\ toast = <<>>
  /\ user \in {None, "u1"}
  /\ store \in GridTables
  /\ formLead = NoLead
  /\ FormInit
  /\ DashInit
  /\ SignedIn

SpecGrid == InitGrid /\ [][NextGrid]_vars

\* ------------------------------------------------------------------------
\* Properties of the Lead Grid
\* ------------------------------------------------------------------------
\* C2: with the grid mounted and a user present, a change of a filter field
\* leaves the page at 1 and sends exactly one fetch, built from the new
\* filter values and page 1, whatever the page was.
C2_FilterChangeOneFetch ==
  [][(gridPhase = "mounted" /\ user # None /\ filters' # filters) =>
       /\ pagination'.page = 1
       /\ Len(inflight') = Len(inflight) + 1
       /\ SubSeq(inflight', 1, Len(inflight)) = inflight
       /\ Last(inflight').user = user
       /\ Last(inflight').filters = filters'
       /\ Last(inflight').page = 1]_vars

\* a filter was changed on page 2 while the fetch for page 2 was in flight:
\* the page is 1 again and one fetch for the new filters and page 1 follows
C2_Witness ==
  /\ Len(inflight) = 2
  /\ inflight[1].page = 2
  /\ inflight[1].filters = InitialFilters
  /\ inflight[2].page = 1
  /\ inflight[2].filters = filters
  /\ filters # InitialFilters
  /\ pagination.page = 1

\* the number of rows of the table that match the grid's current filters
\* for the current user
MatchingNow ==
  RunQuery(BuildQuery(user, filters, pagination.page, pagination.limit), store).count

\* C3: once the grid is at rest after a fetch that succeeded, with its total
\* equal to the number of matching rows, the previous control is disabled on
\* the first page and the next control is disabled when no matching row lies
\* beyond the current page window, also when nothing matches or a delete has
\* reduced the total.
C3_ControlsDisabledAtEnds ==
  (/\ gridPhase = "mounted"
   /\ user # None
   /\ inflight = <<>>
   /\ inflightDeletes = <<>>
   /\ ~loading
   /\ toast = <<>>
   /\ pagination.total = MatchingNow) =>
     /\ pagination.page = 1 => PrevDisabled
     /\ pagination.total <= pagination.page * 20 => NextDisabled

\* C4: for a total > 0 and a page p with 1 <= p <= ceil(total / 20) the
\* footer shows (p-1)*20+1 to min(p*20, total) of total, and the next control
\* is disabled exactly when p is the last page, p = ceil(total / 20).
C4_FooterRange ==
  LET t == pagination.total
      p == pagination.page
  IN (t > 0 /\ p >= 1 /\ (p - 1) * 20 < t) =>
       /\ FooterFrom = (p - 1) * 20 + 1
       /\ FooterTo = (IF p * 20 <= t THEN p * 20 ELSE t)
       /\ NextDisabled <=> (t <= p * 20)

\* 45 rows, page 3: rows 41 to 45 are shown and next is disabled
C4_Witness ==
  /\ pagination.total = 45
  /\ pagination.page = 3
  /\ FooterFrom = 41
  /\ FooterTo = 45
  /\ NextDisabled
  /\ Len(leads) = 5
  /\ inflight = <<>>

\* C5: a successful delete of lead id L by user U removes from the table
\* exactly the row whose id is L and whose owner is U (none if no row matches
\* both) and leaves every other row as it was; no other step changes the
\* table.
C5_DeleteExactlyOwnRow ==
  [][/\ toast' = <<"Lead deleted">> =>
          \E i \in DOMAIN inflightDeletes :
            LET d == inflightDeletes[i]
                gone == {r \in RowSet(store) : r.id = d.id /\ r.user_id = d.user_id}
            IN /\ inflightDeletes' = RemoveAt(inflightDeletes, i)
               /\ Cardinality(gone) <= 1
               /\ RowSet(store') = RowSet(store) \ gone
               /\ Len(store') = Len(store) - Cardinality(gone)
     /\ toast' # <<"Lead deleted">> => store' = store]_vars

\* a delete has removed one row of the table
C5_Witness ==
  /\ toast = <<"Lead deleted">>
  /\ Len(store) \in {46, 22}
  /\ Len(inflight) = 1

\* C10: no delete request is sent unless the user confirms; a failed delete
\* raises the error notice, leaves rows, filters, page, totals and the
\* loading flag as they were and sends no fetch; a successful delete sends a
\* fetch.
C10_DeleteFlow ==
  [][/\ Len(inflightDeletes') > Len(inflightDeletes) =>
          \E leadId \in ClickedRows : HandleDeleteLead(leadId, TRUE)
     /\ \A leadId \in ClickedRows :
          HandleDeleteLead(leadId, FALSE) => inflightDeletes' = inflightDeletes /\ store' = store
     /\ \A i \in DOMAIN inflightDeletes :
          /\ DeleteComplete(i, FALSE) =>
               /\ toast' = <<"Failed to delete lead">>
               /\ UNCHANGED <<leads, filters, pagination, loading, inflight, store>>
          /\ DeleteComplete(i, TRUE) =>
               /\ Len(inflight') = Len(inflight) + 1
               /\ loading']_vars

\* a delete has failed: the notice is up and the grid shows what it showed
C10_Witness ==
  /\ toast = <<"Failed to delete lead">>
  /\ inflight = <<>>
  /\ inflightDeletes = <<>>
  /\ ~loading
  /\ leads # <<>>

\* whether text t contains text s, without regard to case
ContainsText(t, s) ==
  \E k \in 0..(Len(t) - Len(s)) :
    \A j \in 1..Len(s) : LowerChar(t[k + j]) = LowerChar(s[j])

\* the rows a fetch with closure c is to select
RowsWanted(c) ==
  {r \in RowSet(store) :
     /\ r.user_id = c.user
     /\ \/ c.filters.search = <<>>
        \/ ContainsText(r.first_name, c.filters.search)
        \/ ContainsText(r.last_name, c.filters.search)
        \/ ContainsText(r.email, c.filters.search)
        \/ ContainsText(r.company, c.filters.search)
     /\ c.filters.status # "all" => r.status = c.filters.status
     /\ c.filters.source # "all" => r.source = c.filters.source
     /\ c.filters.is_qualified # "all" => r.is_qualified = (c.filters.is_qualified = "true")}

\* the response to the fetch with closure c
ResponseTo(c) == RunQuery(BuildQuery(c.user, c.filters, c.page, pagination.limit), store)

\* the response holds the rows (c.page-1)*20 .. c.page*20-1 of the wanted
\* rows, counted from 0 with the latest created first, and their number
WindowOfWanted(c) ==
  LET wanted == RowsWanted(c)
      res == ResponseTo(c)
      first == (c.page - 1) * 20
      last == c.page * 20 - 1
      n == Cardinality(wanted)
  IN /\ res.count = n
     /\ Len(res.data) = (IF n > last THEN 20 ELSE IF n > first THEN n - first ELSE 0)
     /\ \A k \in DOMAIN res.data :
          /\ res.data[k] \in wanted
          /\ Cardinality({r \in wanted : r.created_at > res.data[k].created_at}) = first + k - 1

\* C7: the query of every fetch selects exactly the rows owned by the user
\* that contain the search text (when there is one) in first_name, last_name,
\* email or company without regard to case and that equal each filter that
\* is not "all"; the response is the window (page-1)*20 .. page*20-1 of them,
\* latest created first, with their total count.
C7_QuerySelection == \A k \in DOMAIN inflight : WindowOfWanted(inflight[k])

\* C7 for the fetches whose search text holds no pattern character
C7_PlainSearchSelection ==
  \A k \in DOMAIN inflight :
    (\A j \in DOMAIN inflight[k].filters.search :
       inflight[k].filters.search[j] \notin {"_", "%"}) => WindowOfWanted(inflight[k])

\* a fetch whose search text occurs only in the company of a row, and whose
\* response holds that row
C7_Witness ==
  \E k \in DOMAIN inflight :
    /\ inflight[k].filters.search = <<"a", "C">>
    /\ \E j \in DOMAIN ResponseTo(inflight[k]).data :
         LET r == ResponseTo(inflight[k]).data[j]
         IN /\ r.company = <<"A", "C">>
            /\ r.first_name = <<"B">>

\* C11: whenever a fetch of the grid is in flight the loading flag is true,
\* also when several fetches overlap; the flag is false only when none is.
C11_LoadingWhileInFlight == inflight # <<>> => loading

\* the step is the successful completion of the i-th fetch in flight: the
\* request has left the flight and no notice was raised
Succeeded(i) == toast' = <<>> /\ inflight' = RemoveAt(inflight, i)

\* the step leaves the grid with the rows and the totals of response res
Shows(res) ==
  /\ leads' = res.data
  /\ pagination'.total = res.count
  /\ pagination'.totalPages = (res.count + 19) \div 20

\* C12: a response is applied whatever its place among the fetches in
\* flight: each successful completion, of the earlier-issued fetch after the
\* later-issued one included, replaces the rows and the totals by those of
\* its own query and leaves the filters and the page as they are, so the
\* grid can come to rest showing rows and totals of other filters or another
\* page than its current ones.
C12_LateResponseOverwrites ==
  [][\A i \in DOMAIN inflight :
       Succeeded(i) => (Shows(ResponseTo(inflight[i])) /\ UNCHANGED <<pagination.page, filters>>)]_vars

\* the grid is at rest after a successful fetch, the table is as it was at
\* the start, and the rows and the total shown are those of the default
\* filters while the grid's filters are others
C12_Witness ==
  /\ gridPhase = "mounted"
  /\ user = "u1"
  /\ inflight = <<>>
  /\ inflightDeletes = <<>>
  /\ toast = <<>>
  /\ store \in GridTables
  /\ filters # InitialFilters
  /\ leads = ResponseTo([Closure EXCEPT !.filters = InitialFilters]).data
  /\ leads # ResponseTo(Closure).data
  /\ pagination.total # ResponseTo(Closure).count


\* the owner predicate of the query a fetch request is sent with
OwnerPredicate(c) == BuildQuery(c.user, c.filters, c.page, pagination.limit).eq[1]

\* C14: every request sent to the leads table carries the id of the user
\* current when it is sent: a fetch, an update and a delete as an equality
\* predicate on user_id, an insert as the user_id of the new row; with no
\* user present no request is sent.
C14_CurrentOwnerOnEveryRequest ==
  [][/\ \A k \in (Len(inflight) + 1)..Len(inflight') :
          /\ user' # None
          /\ OwnerPredicate(inflight'[k]) = [col |-> "user_id", val |-> user']
     /\ Len(inflightDeletes') > Len(inflightDeletes) =>
          /\ user' # None
          /\ Last(inflightDeletes').user_id = user'
     /\ (pending' # pending /\ pending'.kind = "insert") =>
          /\ user' # None
          /\ pending'.values.user_id = user'
     /\ (pending' # pending /\ pending'.kind = "update") =>
          /\ user' # None
          /\ pending'.user_id = user']_vars

\* C16: in every grid state the page is at least 1 and the page size is 20,
\* and each successful fetch leaves total equal to the count the store
\* returned and the total page count equal to ceil(total / 20), the least
\* number of pages of 20 that hold total rows.
C16_PaginationInvariant ==
  /\ pagination.page >= 1
  /\ pagination.limit = 20
  /\ [][/\ pagination'.page >= 1
        /\ pagination'.limit = 20
        /\ \A i \in DOMAIN inflight :
             Succeeded(i) =>
               /\ pagination'.total = ResponseTo(inflight[i]).count
               /\ pagination'.totalPages * 20 >= pagination'.total
               /\ (pagination'.totalPages - 1) * 20 < pagination'.total]_vars

\* a fetch for page 2 has succeeded with 21 rows in all: two pages
C16_Witness ==
  /\ gridPhase = "mounted"
  /\ inflight = <<>>
  /\ toast = <<>>
  /\ pagination.page = 2
  /\ pagination.total = 21
  /\ pagination.totalPages = 2
  /\ Len(leads) = 1

\* C18: a failed fetch leaves the rows, the total, the total page count,
\* the page and the filters as they were, clears the loading flag, raises
\* exactly one error notice and sends nothing; a fetch is sent only by a
\* trigger: the mount, a change of filters, page, refresh trigger or user,
\* or the completion of a delete.
C18_FailedFetch ==
  [][/\ \A i \in DOMAIN inflight :
          FetchComplete(i, FALSE) =>
            /\ UNCHANGED <<leads, pagination, filters, store, inflightDeletes>>
            /\ ~loading'
            /\ toast' = <<"Failed to fetch leads">>
            /\ inflight' = RemoveAt(inflight, i)
     /\ Len(inflight') > Len(inflight) =>
          \/ gridPhase' # gridPhase
          \/ filters' # filters
          \/ pagination'.page # pagination.page
          \/ refreshTrigger' # refreshTrigger
          \/ user' # user
          \/ Len(inflightDeletes') < Len(inflightDeletes)]_vars

\* the fetch for changed filters has failed: the notice is up, nothing is in
\* flight and the rows of the earlier fetch are still displayed
C18_Witness ==
  /\ toast = <<"Failed to fetch leads">>
  /\ inflight = <<>>
  /\ ~loading
  /\ filters # InitialFilters
  /\ leads # <<>>
  /\ leads = ResponseTo([Closure EXCEPT !.filters = InitialFilters]).data

\* the request for the default filters and page 1 on behalf of user u
DefaultRequest(u) == [user |-> u, filters |-> InitialFilters, page |-> 1]

\* C21: the mount of the grid with a user present sends two fetches with
\* the same query, default filters and page 1, one from each effect; the
\* mount with no user sends none, no fetch is sent while there is no user
\* and no delete awaits its response, and one is sent when the user appears.
C21_MountFetches ==
  [][/\ GridMount =>
          /\ user # None => (inflight' = <<DefaultRequest(user), DefaultRequest(user)>> /\ loading')
          /\ user = None => (inflight' = <<>> /\ ~loading')
     /\ (user = None /\ user' = None /\ inflightDeletes = <<>>) =>
          Len(inflight') <= Len(inflight)
     /\ (gridPhase = "mounted" /\ user = None /\ user' # None) =>
          /\ Len(inflight') = Len(inflight) + 1
          /\ Last(inflight').user = user'
          /\ Last(inflight').page = 1]_vars

\* the grid has just mounted for u1: two equal fetches are in flight
C21_Witness ==
  /\ gridPhase = "mounted"
  /\ nEvents = 0
  /\ loading
  /\ inflight = <<DefaultRequest("u1"), DefaultRequest("u1")>>

\* C22: the fetch sent after a successful delete is built from the user,
\* the filters and the page captured when the delete was started, not from
\* those current when it completes; after a change of filter or page in
\* between it queries the old filters and page.
C22_DeleteFetchUsesOldClosure ==
  [][/\ Len(inflightDeletes') > Len(inflightDeletes) =>
          Last(inflightDeletes').closure =
            [user |-> user, filters |-> filters, page |-> pagination.page]
     /\ \A i \in DOMAIN inflightDeletes :
          (toast' = <<"Lead deleted">> /\ inflightDeletes' = RemoveAt(inflightDeletes, i)) =>
            inflight' = Append(inflight, inflightDeletes[i].closure)]_vars

\* a delete has succeeded after the filters were changed: the fetch it sent
\* is for the filters of the time the delete was started
C22_Witness ==
  /\ toast = <<"Lead deleted">>
  /\ inflight # <<>>
  /\ Last(inflight).filters = InitialFilters
  /\ filters # InitialFilters
  /\ Last(inflight).user = user

\* ------------------------------------------------------------------------
\* Properties of the Dashboard
\* ------------------------------------------------------------------------
\* C8: the view starts at grid and moves only grid -> create on a create
\* request, grid -> edit (with that lead selected) on a row selection, and
\* create/edit -> grid on a successful submission, a cancellation or a failed
\* update; a failed create leaves the view where it is.
C8_ViewTransitions ==
  /\ currentView = "grid"
  /\ [][/\ (currentView' # currentView) =>
            \/ currentView = "grid" /\ currentView' = "create" /\ OnCreateLead
            \/ /\ currentView = "grid" /\ currentView' = "edit"
               /\ selectedLead' # NoLead
               /\ HandleEditLead(selectedLead')
            \/ /\ currentView \in {"create", "edit"} /\ currentView' = "grid"
               /\ \/ CreateComplete(TRUE)
                  \/ UpdateComplete(TRUE)
                  \/ UpdateComplete(FALSE)
                  \/ HandleCancelForm
                  \/ TitleClick
        /\ OnCreateLead => currentView' = "create"
        /\ (CreateComplete(TRUE) \/ UpdateComplete(TRUE) \/ UpdateComplete(FALSE)
              \/ HandleCancelForm) => currentView' = "grid"
        /\ CreateComplete(FALSE) => currentView' = currentView]_vars

\* a create has failed and the view is still the create form
C8_Witness ==
  /\ currentView = "create"
  /\ toast = <<"Failed to create lead">>
  /\ pending = NoRequest

\* C9: the refresh trigger is incremented by exactly one on each successful
\* create and each successful update and is left unchanged by every other
\* step (failed create, failed update, cancellation, view switches); it never
\* decreases.
C9_RefreshTrigger ==
  [][/\ (CreateComplete(TRUE) \/ UpdateComplete(TRUE)) =>
            refreshTrigger' = refreshTrigger + 1
     /\ ~(CreateComplete(TRUE) \/ UpdateComplete(TRUE)) =>
            refreshTrigger' = refreshTrigger
     /\ refreshTrigger' >= refreshTrigger]_vars

\* an update has failed after an earlier success: the counter stands at one
C9_Witness ==
  /\ refreshTrigger = 1
  /\ toast = <<"Failed to update lead">>

\* whether the last step navigated to the login view
ToLogin == \E k \in DOMAIN navigated : navigated[k] = "/login"

\* C13: whenever auth loading has finished and no session is present, at
\* mount or when that comes about later, the dashboard navigates to the login
\* view, and it renders none of grid, create form and edit form; with a
\* session present it navigates to login only on a successful logout.
C13_SessionRedirect ==
  /\ (~authLoading /\ session = None) => ToLogin
  /\ session # None => ~ToLogin
  /\ [](~authLoading /\ session = None => DashboardRender \notin {"grid", "create", "edit"})
  /\ [][/\ (/\ ~authLoading' /\ session' = None
             /\ (authLoading \/ session # None)) => ToLogin'
        /\ (session' # None /\ ToLogin') => LogoutComplete(TRUE)]_vars

\* the session went away while the create form was open: login has been
\* navigated to and nothing is rendered
C13_Witness ==
  /\ session = None
  /\ ~authLoading
  /\ currentView = "create"
  /\ navigated = <<"/login">>
  /\ DashboardRender = "nothing"

\* C19: in every dashboard state, whatever the interleaving of user actions
\* with create and update completions, the view is edit only while a lead
\* is selected: the selected lead is cleared only together with a switch to
\* grid, and edit is entered only together with selecting a lead.
C19_EditHasSelectedLead ==
  /\ [](currentView = "edit" => selectedLead # NoLead)
  /\ [][/\ (selectedLead # NoLead /\ selectedLead' = NoLead) => currentView' = "grid"
        /\ (currentView # "edit" /\ currentView' = "edit") => selectedLead' # NoLead]_vars

\* the edit form is open on a lead while a create sent earlier is still
\* awaiting its response
C19_Witness ==
  /\ currentView = "edit"
  /\ selectedLead # NoLead
  /\ pending.kind = "insert"

\* C20: a create or update that completes after the user has left its form
\* still applies its completion: a successful create and every update
\* outcome set the view to grid whatever the view is then, and a successful
\* create leaves the selected lead as it is.
C20_LateCompletion ==
  [][/\ CreateComplete(TRUE) => (currentView' = "grid" /\ selectedLead' = selectedLead)
     /\ \A ok \in BOOLEAN :
          UpdateComplete(ok) => (currentView' = "grid" /\ selectedLead' = NoLead)]_vars

\* a create succeeded while the edit form of a lead was open: the view is
\* grid and that lead is still selected
C20_Witness ==
  /\ toast = <<"Lead created">>
  /\ currentView = "grid"
  /\ selectedLead # NoLead
  /\ pending = NoRequest

====
